---- MODULE Spec2Model ----
(***************************************************************************)
(* Model of the concept02 scheduler controller: the state toggle protocol  *)
(* (ToggleDeployment / AttemptToggleDeployment), the schedule annotation   *)
(* parser and the time-range evaluator.                                    *)
(*                                                                         *)
(* Strings are sequences of one-character strings, so that formatting and  *)
(* parsing (strconv.Itoa / strconv.Atoi, time.Format / time.Parse,         *)
(* strings.Split / strings.Trim) are computed and not assumed.             *)
(***************************************************************************)
EXTENDS Integers, Sequences, FiniteSets, TLC

VARIABLES
    store,      \* the cluster API's stored Deployment, per key
    init,       \* the stored Deployment each key started with (history)
    ext,        \* number of writes/deletes by writers other than this program
    left,       \* the stored Deployment as the other writers left it, per key
    pc,         \* per caller: "idle", "get", "update", "crashed"
    cur,        \* per caller: the ToggleDeployment call in progress
    last,       \* the observed caller's last completed ToggleDeployment call
    prev,       \* the observed caller's completed call before `last`
    held,       \* per caller: the *Deployment a caller holds for AttemptToggleDeployment
    ncalls,     \* toggle calls made so far
    faults,     \* number of injected API failures so far
    clock,      \* an evaluation of TimeRange.InRangeNow: its inputs and result
    sched,      \* a run of parseScheduleAnnotation: its input and result
    mirror,     \* the informer's indexer: the cached Deployment, per key
    synced,     \* deploymentInformer.HasSynced()
    stop,       \* stopCh is closed
    run,        \* Controller.Run: "init", "wait", "tick", "call", "done", "crashed"
    todo,       \* the keys loopIteration has still to visit, in ListKeys order
    walltime,   \* the wall clock: what time.Now() returns
    ticks,      \* calls of loopIteration begun so far
    visit,      \* per key: what the current (or last) loopIteration did with it
    req         \* the HTTP request to /scaleDown or /scaleUp being served

togglerVars == <<store, init, ext, left, pc, cur, last, prev, held, ncalls, faults>>

loopVars == <<mirror, synced, stop, run, todo, walltime, ticks, visit>>

\* What the toggle protocol's own steps leave alone
\* what a step of a toggle call leaves alone but for the request it serves
besideVars == <<clock, sched, loopVars>>

asideVars == <<besideVars, req>>

vars == <<store, init, ext, left, pc, cur, last, prev, held, ncalls, faults,
          clock, sched, mirror, synced, stop, run, todo, walltime, ticks, visit, req>>

---------------------------------------------------------------------------
(* Bounds of the model *)

\* The replica counts of the model are the multiples of ReplicaStep up to
\* MaxReplicas * ReplicaStep (one-digit and two-digit numbers).
MaxReplicas == 2
ReplicaStep == 6
MaxCalls == 3
MaxExternal == 5
MaxFaults == 1

ReplicaCounts == {ReplicaStep * i : i \in 0..MaxReplicas}

(* Program constants *)

\* retry.DefaultRetry: Steps = 5
RetrySteps == 5

REPLICAS_MEMORY_ANNOTATION == "scheduler.replicas-memory"
SCHEDULE_ANNOTATION == "scheduler.off-schedule"
ENABLED_ANNOTATION == "scheduler.enabled"

ENABLED_STATE == TRUE
DISABLED_STATE == FALSE

Keys == {"A", "B"}
Callers == {"c1", "c2"}

\* The caller whose completed calls are recorded (the callers are alike)
Observed == "c1"

\* The goroutine net/http serves a /scaleDown or /scaleUp request on
Handler == "c2"

---------------------------------------------------------------------------
(* Strings and integer conversions *)

Digits == <<"0", "1", "2", "3", "4", "5", "6", "7", "8", "9">>

IsDigit(ch) == \E d \in 1..10 : Digits[d] = ch

DigitVal(ch) == (CHOOSE d \in 1..10 : Digits[d] = ch) - 1

RECURSIVE ItoaNat(_)
ItoaNat(n) ==
    IF n < 10 THEN <<Digits[n + 1]>>
    ELSE ItoaNat(n \div 10) \o <<Digits[(n % 10) + 1]>>

\* strconv.Itoa
Itoa(n) == IF n < 0 THEN <<"-">> \o ItoaNat(-n) ELSE ItoaNat(n)

RECURSIVE DigitsVal(_)
DigitsVal(s) ==
    IF s = <<>> THEN 0
    ELSE DigitsVal(SubSeq(s, 1, Len(s) - 1)) * 10 + DigitVal(s[Len(s)])

\* strconv.Atoi: an optional sign followed by one or more decimal digits
Atoi(s) ==
    LET signed == Len(s) > 0 /\ s[1] \in {"+", "-"}
        body   == IF signed THEN Tail(s) ELSE s
        ok     == Len(body) > 0 /\ \A i \in 1..Len(body) : IsDigit(body[i])
        mag    == IF ok THEN DigitsVal(body) ELSE 0
    IN  [err |-> ~ok,
         val |-> IF signed /\ s[1] = "-" THEN -mag ELSE mag]

---------------------------------------------------------------------------
(* Annotation maps *)

EmptyMap == [x \in {} |-> <<>>]

MapSet(m, k, v) == [x \in (DOMAIN m) \cup {k} |-> IF x = k THEN v ELSE m[x]]

MapDelete(m, k) == [x \in (DOMAIN m) \ {k} |-> m[x]]

---------------------------------------------------------------------------
(* Clock times, the time-range evaluator and the schedule parser *)

\* A time.Time that time.Parse("15:04", ...) returns: hour and minute of the
\* first day of year 0, UTC.  Instant: its minutes since that day began.
ZeroClock == [hour |-> 0, minute |-> 0]

Instant(t) == t.hour * 60 + t.minute

\* Time.Before and Time.After compare instants
Before(a, b) == Instant(a) < Instant(b)

After(a, b) == Instant(a) > Instant(b)

\* Time.Format("15:04") of a wall-clock time: two digits, a colon, two digits
FormatClock(w) ==
    <<Digits[(w.hour \div 10) + 1], Digits[(w.hour % 10) + 1], ":",
      Digits[(w.minute \div 10) + 1], Digits[(w.minute % 10) + 1]>>

\* time.Parse("15:04", s): an hour of one or two digits below 24, a colon, a
\* minute of two digits below 60, and nothing after it.
ParseClock(s) ==
    LET n    == Len(s)
        h1   == n >= 1 /\ IsDigit(s[1])
        h2   == n >= 2 /\ IsDigit(s[1]) /\ IsDigit(s[2])
        hour == IF h2 THEN DigitVal(s[1]) * 10 + DigitVal(s[2])
                ELSE IF h1 THEN DigitVal(s[1]) ELSE 0
        rest == IF h2 THEN SubSeq(s, 3, n) ELSE IF h1 THEN SubSeq(s, 2, n) ELSE <<>>
        m2   == Len(rest) = 3 /\ rest[1] = ":" /\ IsDigit(rest[2]) /\ IsDigit(rest[3])
        min  == IF m2 THEN DigitVal(rest[2]) * 10 + DigitVal(rest[3]) ELSE 0
        ok   == h1 /\ hour < 24 /\ m2 /\ min < 60
    IN  [err |-> ~ok,
         time |-> IF ok THEN [hour |-> hour, minute |-> min] ELSE ZeroClock]

\* InRangeNow with the bounds of the range counted in
InRangeNowInclusive(t, wall) ==
    LET now == ParseClock(FormatClock(wall)).time
    IN  IF Before(t.End, t.Start)
        THEN ~Before(now, t.Start) \/ ~After(now, t.End)
        ELSE ~Before(now, t.Start) /\ ~After(now, t.End)

\* TimeRange.InRangeNow, the wall clock reading `wall`
InRangeNow(t, wall) ==
    LET now == ParseClock(FormatClock(wall)).time
    IN  IF Before(t.End, t.Start)
        THEN After(now, t.Start) \/ Before(now, t.End)
        ELSE After(now, t.Start) /\ Before(now, t.End)

\* strings.Split(s, sep) for a separator of one character
RECURSIVE Split(_, _)
Split(s, sep) ==
    IF \E i \in 1..Len(s) : s[i] = sep
    THEN LET i == CHOOSE j \in 1..Len(s) :
                      s[j] = sep /\ \A l \in 1..(j - 1) : s[l] # sep
         IN  <<SubSeq(s, 1, i - 1)>> \o Split(SubSeq(s, i + 1, Len(s)), sep)
    ELSE <<s>>

\* strings.Trim(s, cutset) for a cutset of one character
RECURSIVE Trim(_, _)
Trim(s, cut) ==
    IF s # <<>> /\ s[1] = cut THEN Trim(Tail(s), cut)
    ELSE IF s # <<>> /\ s[Len(s)] = cut THEN Trim(SubSeq(s, 1, Len(s) - 1), cut)
    ELSE s

\* Controller.parseScheduleAnnotation.  kind: "range" (a TimeRange and a nil
\* error), "error" (an error), "panic" (tokens[1] indexed out of range).
parseScheduleAnnotation(annotations) ==
    LET failed(kind) == [kind |-> kind, start |-> ZeroClock, end |-> ZeroClock]
    IN  IF SCHEDULE_ANNOTATION \notin DOMAIN annotations
        THEN failed("error")
        ELSE LET tokens == Split(annotations[SCHEDULE_ANNOTATION], "-")
                 start  == ParseClock(Trim(tokens[1], " "))
             IN  IF start.err THEN failed("error")
                 ELSE IF Len(tokens) < 2 THEN failed("panic")
                 ELSE LET end == ParseClock(Trim(tokens[2], " "))
                      IN  IF end.err THEN failed("error")
                          ELSE [kind |-> "range", start |-> start.time,
                                end |-> end.time]

---------------------------------------------------------------------------
(* Deployment objects *)

\* A Go *Deployment in the program's memory.  annNil: ObjectMeta.Annotations
\* is a nil map.  rv: ObjectMeta.ResourceVersion.
NoObj == [replicas |-> 0, annNil |-> TRUE, ann |-> EmptyMap, rv |-> 0]

\* A key the API does not store
Absent == [exists |-> FALSE, replicas |-> 0, ann |-> EmptyMap, rv |-> 0]

\* deploymentsClient.Get: the decoded object; an object stored without
\* annotations decodes to a nil Annotations map.
Fetch(s) ==
    [replicas |-> s.replicas,
     annNil   |-> (DOMAIN s.ann = {}),
     ann      |-> s.ann,
     rv       |-> s.rv]

\* Memorize with its memorizing left out
MemorizeSkips(obj) == [panic |-> FALSE, obj |-> obj]

\* "Memorize current replicas number": writing an entry of a nil map panics.
Memorize(obj) ==
    IF obj.replicas # 0
    THEN IF obj.annNil
         THEN [panic |-> TRUE, obj |-> obj]
         ELSE [panic |-> FALSE,
               obj |-> [obj EXCEPT !.ann = MapSet(obj.ann, REPLICAS_MEMORY_ANNOTATION,
                                                  Itoa(obj.replicas))]]
    ELSE [panic |-> FALSE, obj |-> obj]

\* SetReplicas without the delete of the replicas-memory annotation on resume
SetReplicasKeepsMemory(obj, targetState) ==
    IF targetState = DISABLED_STATE
    THEN IF obj.replicas = 0
         THEN [outcome |-> "return-nil", obj |-> obj]
         ELSE [outcome |-> "update", obj |-> [obj EXCEPT !.replicas = 0]]
    ELSE IF obj.replicas # 0
         THEN [outcome |-> "return-nil", obj |-> obj]
         ELSE IF REPLICAS_MEMORY_ANNOTATION \in DOMAIN obj.ann
              THEN LET a == Atoi(obj.ann[REPLICAS_MEMORY_ANNOTATION])
                   IN  IF a.err
                       THEN [outcome |-> "return-err", obj |-> obj]
                       ELSE [outcome |-> "update",
                             obj |-> [obj EXCEPT !.replicas = a.val]]
              ELSE [outcome |-> "update", obj |-> obj]

\* SetReplicas resuming to one step of replicas when nothing is memorized
SetReplicasInventsScale(obj, targetState) ==
    IF targetState = DISABLED_STATE
    THEN IF obj.replicas = 0
         THEN [outcome |-> "return-nil", obj |-> obj]
         ELSE [outcome |-> "update", obj |-> [obj EXCEPT !.replicas = 0]]
    ELSE IF obj.replicas # 0
         THEN [outcome |-> "return-nil", obj |-> obj]
         ELSE IF REPLICAS_MEMORY_ANNOTATION \in DOMAIN obj.ann
              THEN LET a == Atoi(obj.ann[REPLICAS_MEMORY_ANNOTATION])
                   IN  IF a.err
                       THEN [outcome |-> "return-err", obj |-> obj]
                       ELSE [outcome |-> "update",
                             obj |-> [obj EXCEPT
                                        !.replicas = a.val,
                                        !.ann = MapDelete(obj.ann, REPLICAS_MEMORY_ANNOTATION)]]
              ELSE [outcome |-> "update", obj |-> [obj EXCEPT !.replicas = ReplicaStep]]

\* "Set the new replicas number": the branch on targetState, on the object
\* after Memorize.  outcome: "return-nil" (early return nil), "return-err"
\* (strconv.Atoi failed), "update" (go on to the Update call).  Every number
\* the model's annotation values denote lies within int32, where the
\* conversion int32(i) keeps the value.
SetReplicas(obj, targetState) ==
    IF targetState = DISABLED_STATE
    THEN IF obj.replicas = 0
         THEN [outcome |-> "return-nil", obj |-> obj]
         ELSE [outcome |-> "update", obj |-> [obj EXCEPT !.replicas = 0]]
    ELSE IF obj.replicas # 0
         THEN [outcome |-> "return-nil", obj |-> obj]
         ELSE IF REPLICAS_MEMORY_ANNOTATION \in DOMAIN obj.ann
              THEN LET a == Atoi(obj.ann[REPLICAS_MEMORY_ANNOTATION])
                   IN  IF a.err
                       THEN [outcome |-> "return-err", obj |-> obj]
                       ELSE [outcome |-> "update",
                             obj |-> [obj EXCEPT
                                        !.replicas = a.val,
                                        !.ann = MapDelete(obj.ann, REPLICAS_MEMORY_ANNOTATION)]]
              ELSE [outcome |-> "update", obj |-> obj]

\* The body shared by ToggleDeployment's closure and AttemptToggleDeployment,
\* up to the Update call.
ToggleBody(obj, targetState) ==
    LET m == Memorize(obj)
    IN  IF m.panic
        THEN [outcome |-> "panic", obj |-> obj]
        ELSE SetReplicas(m.obj, targetState)

\* Update without the guard of the resource version
UpdateResultNoVersion(obj, stored) ==
    IF ~stored.exists THEN "notfound" ELSE "nil"

\* Deployments(ns).Update: the API's answer to an update of `obj` against the
\* stored object: guarded by the resource version.
UpdateResult(obj, stored) ==
    IF ~stored.exists THEN "notfound"
    ELSE IF obj.rv # stored.rv THEN "conflict"
    ELSE "nil"

\* The stored object after an accepted update.  An update that changes
\* nothing is not written and keeps the resource version.
Applied(stored, obj) ==
    IF stored.replicas = obj.replicas /\ stored.ann = obj.ann
    THEN stored
    ELSE [exists |-> TRUE, replicas |-> obj.replicas, ann |-> obj.ann,
          rv |-> stored.rv + 1]

\* RetryOnConflict allowing one invocation more
RetryDecisionOneMore(err, attempt) ==
    IF err = "nil" THEN "return-nil"
    ELSE IF err = "conflict" /\ attempt <= RetrySteps THEN "retry"
    ELSE "return-err"

\* RetryOnConflict retrying on every error
RetryDecisionAnyError(err, attempt) ==
    IF err = "nil" THEN "return-nil"
    ELSE IF attempt < RetrySteps THEN "retry"
    ELSE "return-err"

\* retry.RetryOnConflict(retry.DefaultRetry, fn): what happens after fn
\* returned `err` on invocation number `attempt`.
RetryDecision(err, attempt) ==
    IF err = "nil" THEN "return-nil"
    ELSE IF err = "conflict" /\ attempt < RetrySteps THEN "retry"
    ELSE "return-err"

---------------------------------------------------------------------------
(* Records of toggle calls *)

\* One ToggleDeployment call.  attempts: invocations of the closure so far;
\* updates: Update calls issued; conflicts: Update calls answered with a
\* conflict; writes: Update calls that changed the stored object; obj: the
\* closure's deploymentObj; fetched: the object the last Get returned;
\* before / after: the stored object when the call started and when it
\* ended; stale: an Update call was accepted although the stored object was
\* no longer the fetched one; clean: no other writer changed the stored
\* object during the call; quiet: no writer changed it between the end of the
\* call and the caller's next call; failAt: the invocation whose Update
\* failed with a non-conflict error; notFoundAt: the invocation whose Get
\* found no object; err: what the closure returned last; result: "none"
\* (under way), "ok", "error", "panic".
NoCall ==
    [key |-> "A", target |-> DISABLED_STATE, attempts |-> 0, updates |-> 0,
     conflicts |-> 0, writes |-> 0, obj |-> NoObj, fetched |-> NoObj,
     before |-> Absent, after |-> Absent, stale |-> FALSE, clean |-> TRUE,
     quiet |-> TRUE, failAt |-> 0, notFoundAt |-> 0, err |-> "nil",
     result |-> "none"]

NoHeld == [has |-> FALSE, key |-> "A", obj |-> NoObj]

InCall(d) == pc[d] \in {"get", "update"}

\* cur[d] after some writer changed (or not) the stored object of key k
MarkedCur(d, k, changed) ==
    IF changed /\ InCall(d) /\ cur[d].key = k
    THEN [cur[d] EXCEPT !.clean = FALSE]
    ELSE cur[d]

\* last after some writer changed (or not) the stored object of key k
MarkedLast(k, changed) ==
    IF changed /\ ~InCall(Observed) /\ last.result # "none" /\ last.key = k
    THEN [last EXCEPT !.quiet = FALSE]
    ELSE last

---------------------------------------------------------------------------
(* Initial states *)

OtherAnnotations == {EmptyMap, [x \in {ENABLED_ANNOTATION} |-> <<"t", "r", "u", "e">>]}

MemoryValues == {Itoa(n) : n \in ReplicaCounts \ {0}} \cup {<<"x">>}

\* The Deployments the cluster may hold when the program meets them
InitialWorkloads ==
    {[exists |-> TRUE, replicas |-> r, ann |-> a, rv |-> 0] :
        r \in ReplicaCounts,
        a \in OtherAnnotations \cup
              {MapSet(o, REPLICAS_MEMORY_ANNOTATION, v) :
                  o \in OtherAnnotations, v \in MemoryValues}}

\* No evaluation and no parse under way
NoClock ==
    [start |-> ZeroClock, end |-> ZeroClock,
     wall |-> [hour |-> 0, minute |-> 0, second |-> 0],
     done |-> FALSE, result |-> FALSE]

NoSched ==
    [ann |-> EmptyMap, done |-> FALSE,
     result |-> [kind |-> "none", start |-> ZeroClock, end |-> ZeroClock]]

\* A key the informer's indexer does not hold
NoEntry == [exists |-> FALSE, ann |-> EmptyMap]

\* What loopIteration did with a key.  kind: "none" (not visited), "absent"
\* (GetByKey found nothing), "off" (not enabled), "error" (schedule not
\* parsed), "suspend" / "resume" (ToggleDeployment called with DISABLED /
\* ENABLED), "panic" (the parser panicked); result: what that call returned,
\* "none", "ok", "error" or "panic"; at: the wall clock when it was visited.
NoVisit ==
    [kind |-> "none", result |-> "none",
     at |-> [hour |-> 0, minute |-> 0, second |-> 0]]

\* No request being served.  open: a handler is running; post: the request's
\* method is POST; status: the HTTP status of the response, 0 while there is
\* none; result: what the handler's ToggleDeployment call returned, "none",
\* "ok", "error" or "panic"; updates: the Update calls that call issued.
NoReq ==
    [open |-> FALSE, post |-> TRUE, status |-> 0, result |-> "none",
     updates |-> 0]

\* Controller.Run not started, nothing cached
LoopRest ==
    /\ mirror = [k \in Keys |-> NoEntry]
    /\ synced = FALSE
    /\ stop = FALSE
    /\ run = "init"
    /\ todo = <<>>
    /\ walltime = [hour |-> 0, minute |-> 0, second |-> 0]
    /\ ticks = 0
    /\ visit = [k \in Keys |-> NoVisit]

Init ==
    /\ clock = NoClock
    /\ sched = NoSched
    /\ LoopRest
    /\ req = NoReq
    /\ store \in [Keys -> InitialWorkloads \cup {Absent}]
    /\ store["A"].exists
    /\ ~store["B"].exists
    /\ init = store
    /\ ext = 0
    /\ left = store
    /\ pc = [c \in Callers |-> "idle"]
    /\ cur = [c \in Callers |-> NoCall]
    /\ last = NoCall
    /\ prev = NoCall
    /\ held = [c \in Callers |-> NoHeld]
    /\ ncalls = 0
    /\ faults = 0

---------------------------------------------------------------------------
(* ToggleDeployment *)

\* A caller enters ToggleDeployment(clientset, namespace, deployment, targetState)
StartCall(c, k, t) ==
    /\ pc[c] = "idle"
    /\ pc' = [pc EXCEPT ![c] = "get"]
    /\ cur' = [cur EXCEPT ![c] = [NoCall EXCEPT !.key = k, !.target = t,
                                               !.before = store[k],
                                               !.after = store[k]]]
    /\ UNCHANGED <<store, init, ext, left, last, prev, held, faults>>

\* A call of ToggleDeployment by a caller on its own
Call(c, k, t) ==
    /\ ncalls < MaxCalls
    /\ StartCall(c, k, t)
    /\ ncalls' = ncalls + 1
    /\ UNCHANGED asideVars

\* What the stored object, the observed records and the callers' states
\* become when the closure of caller c has returned `err`, its record being
\* `call`, and the stored object of its key is s2 from now on.
Returned(c, call, err, s2) ==
    LET k    == call.key
        dec  == RetryDecision(err, call.attempts)
        rec  == [call EXCEPT !.err = err, !.after = s2]
        done == [rec EXCEPT !.obj = NoObj,
                            !.result = IF dec = "return-nil" THEN "ok" ELSE "error"]
    IN  /\ store' = [store EXCEPT ![k] = s2]
        /\ pc' = [pc EXCEPT ![c] = IF dec = "retry" THEN "get" ELSE "idle"]
        /\ cur' = [d \in Callers |->
                     IF d = c
                     THEN (IF dec = "retry" THEN rec ELSE NoCall)
                     ELSE MarkedCur(d, k, s2 # store[k])]
        /\ last' = IF c = Observed /\ dec # "retry"
                   THEN done
                   ELSE MarkedLast(k, s2 # store[k])
        /\ prev' = IF c = Observed /\ dec # "retry" THEN last ELSE prev
        /\ req' = IF c = Handler /\ req.open /\ dec # "retry"
                  THEN [req EXCEPT !.result = done.result,
                                   !.updates = done.updates]
                  ELSE req

\* The closure of caller c panics: the goroutine's call is over
Panicked(c, call) ==
    /\ pc' = [pc EXCEPT ![c] = "crashed"]
    /\ cur' = [cur EXCEPT ![c] = NoCall]
    /\ last' = IF c = Observed
               THEN [call EXCEPT !.obj = NoObj, !.result = "panic"]
               ELSE last
    /\ prev' = IF c = Observed THEN last ELSE prev
    /\ req' = IF c = Handler /\ req.open
              THEN [req EXCEPT !.result = "panic", !.updates = call.updates]
              ELSE req
    /\ UNCHANGED store

\* One invocation of the closure up to its Update call: Get, memorize, set
\* the replicas.
GetStep(c) ==
    /\ pc[c] = "get"
    /\ LET call == [cur[c] EXCEPT !.attempts = @ + 1]
           s    == store[call.key]
           f    == Fetch(s)
           b    == ToggleBody(f, call.target)
           got  == [call EXCEPT !.fetched = f, !.obj = b.obj]
       IN  IF ~s.exists
           THEN \* getErr # nil: the closure returns fmt.Errorf(...)
                Returned(c, [call EXCEPT !.notFoundAt = call.attempts], "get", s)
           ELSE CASE b.outcome = "panic" -> Panicked(c, got)
                  [] b.outcome = "return-nil" -> Returned(c, got, "nil", s)
                  [] b.outcome = "return-err" -> Returned(c, got, "atoi", s)
                  [] OTHER -> /\ pc' = [pc EXCEPT ![c] = "update"]
                              /\ cur' = [cur EXCEPT ![c] = got]
                              /\ UNCHANGED <<store, last, prev, req>>
    /\ UNCHANGED <<init, ext, left, held, ncalls, faults>>
    /\ UNCHANGED besideVars

\* The closure's Update call and RetryOnConflict's reaction to its answer.
\* fault: the API fails the call with an error that is no conflict.
UpdateStep(c, fault) ==
    /\ pc[c] = "update"
    /\ fault => faults < MaxFaults
    /\ LET call == cur[c]
           s    == store[call.key]
           err  == IF fault THEN "error" ELSE UpdateResult(call.obj, s)
           s2   == IF err = "nil" THEN Applied(s, call.obj) ELSE s
           rec  == [call EXCEPT !.updates = @ + 1,
                                !.conflicts = IF err = "conflict" THEN @ + 1 ELSE @,
                                !.writes = IF s2 # s THEN @ + 1 ELSE @,
                                !.failAt = IF err \in {"error", "notfound"}
                                           THEN call.attempts ELSE @,
                                !.stale = @ \/ (err = "nil" /\ Fetch(s) # call.fetched)]
       IN  Returned(c, rec, err, s2)
    /\ faults' = IF fault THEN faults + 1 ELSE faults
    /\ UNCHANGED <<init, ext, left, held, ncalls>>
    /\ UNCHANGED besideVars

---------------------------------------------------------------------------
(* AttemptToggleDeployment *)

\* A caller obtains a *Deployment to pass to AttemptToggleDeployment
Acquire(c, k) ==
    /\ pc[c] = "idle"
    /\ ncalls < MaxCalls
    /\ store[k].exists
    /\ held[c] # [has |-> TRUE, key |-> k, obj |-> Fetch(store[k])]
    /\ held' = [held EXCEPT ![c] = [has |-> TRUE, key |-> k, obj |-> Fetch(store[k])]]
    /\ UNCHANGED <<store, init, ext, left, pc, cur, last, prev, ncalls, faults>>
    /\ UNCHANGED asideVars

\* AttemptToggleDeployment(clientset, deployment, targetState) on the held
\* object, which it changes in place; one Update call at most, no retry.
AttemptToggle(c, t, fault) ==
    /\ pc[c] = "idle"
    /\ held[c].has
    /\ ncalls < MaxCalls
    /\ fault => faults < MaxFaults
    /\ LET k   == held[c].key
           s   == store[k]
           b   == ToggleBody(held[c].obj, t)
           upd == b.outcome = "update"
           err == IF fault THEN "error" ELSE UpdateResult(b.obj, s)
           s2  == IF upd /\ err = "nil" THEN Applied(s, b.obj) ELSE s
       IN  /\ fault => upd
           /\ store' = [store EXCEPT ![k] = s2]
           /\ held' = [held EXCEPT ![c].obj = b.obj]
           /\ pc' = [pc EXCEPT ![c] = IF b.outcome = "panic" THEN "crashed" ELSE "idle"]
           /\ cur' = [d \in Callers |-> MarkedCur(d, k, s2 # s)]
           /\ last' = MarkedLast(k, s2 # s)
           /\ faults' = IF fault THEN faults + 1 ELSE faults
    /\ ncalls' = ncalls + 1
    /\ UNCHANGED <<init, ext, left, prev>>
    /\ UNCHANGED asideVars

---------------------------------------------------------------------------
(* Other writers of the cluster API *)

\* Another client updates the Deployment: it sets the replicas to r (r equal
\* to the stored value: a change of some other field) and the resource
\* version moves on.  The model lets it write between a caller's Get and its
\* Update, where the write decides what the caller's Update call answers.
ExternalWrite(k, r) ==
    /\ store[k].exists
    /\ ext < MaxExternal
    /\ \E c \in Callers : pc[c] = "update" /\ cur[c].key = k
    /\ store' = [store EXCEPT ![k].replicas = r, ![k].rv = @ + 1]
    /\ left' = [left EXCEPT ![k] = store'[k]]
    /\ ext' = ext + 1
    /\ cur' = [d \in Callers |-> MarkedCur(d, k, TRUE)]
    /\ last' = MarkedLast(k, TRUE)
    /\ UNCHANGED <<init, pc, prev, held, ncalls, faults>>
    /\ UNCHANGED asideVars

\* Another client deletes the Deployment, while a call is under way on it
ExternalDelete(k) ==
    /\ store[k].exists
    /\ ext < MaxExternal
    /\ \E c \in Callers : InCall(c) /\ cur[c].key = k
    /\ store' = [store EXCEPT ![k] = Absent]
    /\ left' = [left EXCEPT ![k] = Absent]
    /\ ext' = ext + 1
    /\ cur' = [d \in Callers |-> MarkedCur(d, k, TRUE)]
    /\ last' = MarkedLast(k, TRUE)
    /\ UNCHANGED <<init, pc, prev, held, ncalls, faults>>
    /\ UNCHANGED asideVars

---------------------------------------------------------------------------

\* The togglers of this program on one Deployment, running concurrently,
\* with no other writer
Next ==
    \/ \E c \in Callers, t \in BOOLEAN : Call(c, "A", t)
    \/ \E c \in Callers : GetStep(c)
    \/ \E c \in Callers, fault \in BOOLEAN : UpdateStep(c, fault)
    \/ \E c \in Callers : Acquire(c, "A")
    \/ \E c \in Callers, t \in BOOLEAN, fault \in BOOLEAN : AttemptToggle(c, t, fault)

Spec == Init /\ [][Next]_vars

\* One call of ToggleDeployment beside the other writers of the cluster API
NextRetry ==
    \/ \E k \in Keys, t \in BOOLEAN : ncalls = 0 /\ Call(Observed, k, t)
    \/ GetStep(Observed)
    \/ \E fault \in BOOLEAN : UpdateStep(Observed, fault)
    \/ \E k \in Keys, r \in ReplicaCounts : ExternalWrite(k, r)
    \/ \E k \in Keys : ExternalDelete(k)

SpecRetry == Init /\ [][NextRetry]_vars

\* The caller's goroutine keeps running and its API calls return
FairRetry ==
    /\ SpecRetry
    /\ WF_vars(GetStep(Observed))
    /\ WF_vars(\E fault \in BOOLEAN : UpdateStep(Observed, fault))

---------------------------------------------------------------------------
(* The time-range evaluator and the schedule parser on their own *)

\* The togglers at rest, nothing stored
TogglerRest ==
    /\ store = [k \in Keys |-> Absent]
    /\ init = store
    /\ ext = 0
    /\ left = store
    /\ pc = [c \in Callers |-> "idle"]
    /\ cur = [c \in Callers |-> NoCall]
    /\ last = NoCall
    /\ prev = NoCall
    /\ held = [c \in Callers |-> NoHeld]
    /\ ncalls = 0
    /\ faults = 0

ClockHours == {0, 9, 22, 23}
ClockMinutes == {0, 1, 59}
ClockSeconds == {0, 59}

ClockTimes == {[hour |-> h, minute |-> m] : h \in ClockHours, m \in ClockMinutes}

WallTimes ==
    {[hour |-> h, minute |-> m, second |-> x] :
        h \in ClockHours, m \in ClockMinutes, x \in ClockSeconds}

InitRange ==
    /\ TogglerRest
    /\ LoopRest
    /\ req = NoReq
    /\ sched = NoSched
    /\ clock \in {[start |-> a, end |-> b, wall |-> w, done |-> FALSE, result |-> FALSE] :
                     a \in ClockTimes, b \in ClockTimes, w \in WallTimes}

\* One call of InRangeNow on the range (start, end) at wall-clock time wall
Evaluate ==
    /\ ~clock.done
    /\ clock' = [clock EXCEPT
                   !.done = TRUE,
                   !.result = InRangeNow([Start |-> clock.start, End |-> clock.end],
                                         clock.wall)]
    /\ UNCHANGED <<togglerVars, sched, loopVars, req>>

SpecRange == InitRange /\ [][Evaluate]_vars

\* Sample tokens of a scheduler.off-schedule value:
\* "09:00", "9:30", " 17:00 ", "24:00", "12:60", "ab", ""
TokenSamples ==
    {<<"0", "9", ":", "0", "0">>,
     <<"9", ":", "3", "0">>,
     <<" ", "1", "7", ":", "0", "0", " ">>,
     <<"2", "4", ":", "0", "0">>,
     <<"1", "2", ":", "6", "0">>,
     <<"a", "b">>,
     <<>>}

MaxTokens == 3

RECURSIVE JoinTokens(_)
JoinTokens(ts) ==
    IF Len(ts) = 1 THEN ts[1] ELSE ts[1] \o <<"-">> \o JoinTokens(Tail(ts))

SampleTexts ==
    {JoinTokens(ts) : ts \in UNION {[1..n -> TokenSamples] : n \in 1..MaxTokens}}

SampleAnnotations ==
    {EmptyMap} \cup {[x \in {SCHEDULE_ANNOTATION} |-> v] : v \in SampleTexts}

InitParse ==
    /\ TogglerRest
    /\ LoopRest
    /\ req = NoReq
    /\ clock = NoClock
    /\ sched \in {[NoSched EXCEPT !.ann = a] : a \in SampleAnnotations}

\* One call of parseScheduleAnnotation
ParseStep ==
    /\ ~sched.done
    /\ sched' = [sched EXCEPT !.done = TRUE,
                              !.result = parseScheduleAnnotation(sched.ann)]
    /\ UNCHANGED <<togglerVars, clock, loopVars, req>>

SpecParse == InitParse /\ [][ParseStep]_vars

---------------------------------------------------------------------------
(* The control loop: Controller.Run and Controller.loopIteration *)

\* The goroutine of Controller.Run as a caller of ToggleDeployment, and a
\* handler of the HTTP service as another
LoopCaller == Observed

MaxTicks == 2

UpperCase == <<"A", "B", "C", "D", "E", "F", "G", "H", "I", "J", "K", "L", "M",
               "N", "O", "P", "Q", "R", "S", "T", "U", "V", "W", "X", "Y", "Z">>
LowerCase == <<"a", "b", "c", "d", "e", "f", "g", "h", "i", "j", "k", "l", "m",
               "n", "o", "p", "q", "r", "s", "t", "u", "v", "w", "x", "y", "z">>

\* strings.ToLower on the letters A..Z
ToLower(s) ==
    [i \in 1..Len(s) |->
        IF \E j \in 1..26 : UpperCase[j] = s[i]
        THEN LowerCase[CHOOSE j \in 1..26 : UpperCase[j] = s[i]]
        ELSE s[i]]

\* IsEnabled that looks for the annotation and not at its value
IsEnabledAnyValue(annotations) ==
    ENABLED_ANNOTATION \in DOMAIN annotations

\* loopIteration's test of the scheduler.enabled annotation
IsEnabled(annotations) ==
    /\ ENABLED_ANNOTATION \in DOMAIN annotations
    /\ ToLower(annotations[ENABLED_ANNOTATION]) = <<"t", "r", "u", "e">>

\* The informer's copy of a stored Deployment: loopIteration reads its
\* annotations, its namespace and its name
Cached(s) == [exists |-> s.exists, ann |-> s.ann]

\* The orders in which ListKeys may return the keys of the indexer
KeyOrders ==
    LET held_ == {k \in Keys : mirror[k].exists}
    IN  {o \in [1..Cardinality(held_) -> held_] :
            \A k \in held_ : \E i \in 1..Cardinality(held_) : o[i] = k}

\* The process is running: no panic has ended it
Alive == run # "crashed"

\* The informer's initial list has filled the indexer
InformerSync ==
    /\ Alive /\ ~stop /\ ~synced
    /\ synced' = TRUE
    /\ mirror' = [k \in Keys |-> Cached(store[k])]
    /\ UNCHANGED <<togglerVars, clock, sched, req>>
    /\ UNCHANGED <<stop, run, todo, walltime, ticks, visit>>

\* A watch event brings the indexer's entry of one key up to date
InformerUpdate(k) ==
    /\ Alive /\ ~stop /\ synced
    /\ mirror[k] # Cached(store[k])
    /\ mirror' = [mirror EXCEPT ![k] = Cached(store[k])]
    /\ UNCHANGED <<togglerVars, clock, sched, req>>
    /\ UNCHANGED <<synced, stop, run, todo, walltime, ticks, visit>>

\* cache.WaitForCacheSync returns true: HasSynced() answered true
RunSynced ==
    /\ run = "init" /\ synced
    /\ run' = "wait"
    /\ UNCHANGED <<togglerVars, clock, sched, req>>
    /\ UNCHANGED <<mirror, synced, stop, todo, walltime, ticks, visit>>

\* cache.WaitForCacheSync returns false: stopCh was closed; Run returns
RunNotSynced ==
    /\ run = "init" /\ stop
    /\ run' = "done"
    /\ UNCHANGED <<togglerVars, clock, sched, req>>
    /\ UNCHANGED <<mirror, synced, stop, todo, walltime, ticks, visit>>

\* TickStart without the look at stopCh
TickStartIgnoresStop(order) ==
    /\ run = "wait"
    /\ ticks < MaxTicks
    /\ order \in KeyOrders
    /\ run' = "tick"
    /\ todo' = order
    /\ ticks' = ticks + 1
    /\ visit' = [k \in Keys |-> NoVisit]
    /\ UNCHANGED <<togglerVars, clock, sched, req>>
    /\ UNCHANGED <<mirror, synced, stop, walltime>>

\* wait.Until finds stopCh open and calls loopIteration, which lists the keys.
\* The tick begins with the look at stopCh that lets it run.
TickStart(order) ==
    /\ run = "wait" /\ ~stop
    /\ ticks < MaxTicks
    /\ order \in KeyOrders
    /\ run' = "tick"
    /\ todo' = order
    /\ ticks' = ticks + 1
    /\ visit' = [k \in Keys |-> NoVisit]
    /\ UNCHANGED <<togglerVars, clock, sched, req>>
    /\ UNCHANGED <<mirror, synced, stop, walltime>>

\* wait.Until finds stopCh closed and returns; Run returns
RunStopped ==
    /\ run = "wait" /\ stop
    /\ run' = "done"
    /\ UNCHANGED <<togglerVars, clock, sched, req>>
    /\ UNCHANGED <<mirror, synced, stop, todo, walltime, ticks, visit>>

\* One pass of loopIteration's for loop up to its call of ToggleDeployment
Visit ==
    /\ run = "tick" /\ todo # <<>>
    /\ LET k == Head(todo)
           annotations == mirror[k].ann
           seen(kind) == [kind |-> kind, result |-> "none", at |-> walltime]
           skip(kind) ==
               /\ visit' = [visit EXCEPT ![k] = seen(kind)]
               /\ todo' = Tail(todo)
               /\ UNCHANGED <<togglerVars, run>>
       IN  IF ~mirror[k].exists THEN skip("absent")
           ELSE IF ~IsEnabled(annotations) THEN skip("off")
           ELSE \E schedule \in {parseScheduleAnnotation(annotations)} :
                CASE schedule.kind = "error" -> skip("error")
                  [] schedule.kind = "panic" ->
                        /\ run' = "crashed"
                        /\ visit' = [visit EXCEPT ![k] = seen("panic")]
                        /\ UNCHANGED <<togglerVars, todo>>
                  [] OTHER ->
                        \E inRange \in {InRangeNow([Start |-> schedule.start,
                                                     End |-> schedule.end], walltime)} :
                            /\ StartCall(LoopCaller, k,
                                         IF inRange THEN DISABLED_STATE ELSE ENABLED_STATE)
                            /\ run' = "call"
                            /\ visit' = [visit EXCEPT ![k] =
                                            seen(IF inRange THEN "suspend" ELSE "resume")]
                            /\ UNCHANGED <<ncalls, todo>>
    /\ UNCHANGED <<clock, sched, req>>
    /\ UNCHANGED <<mirror, synced, stop, walltime, ticks>>

\* Continue with a return from loopIteration where ToggleDeployment failed
ContinueReturnsOnError ==
    /\ run = "call" /\ pc[LoopCaller] = "idle"
    /\ visit' = [visit EXCEPT ![Head(todo)].result = last.result]
    /\ todo' = IF last.result = "error" THEN <<>> ELSE Tail(todo)
    /\ run' = "tick"
    /\ UNCHANGED <<togglerVars, clock, sched, req>>
    /\ UNCHANGED <<mirror, synced, stop, walltime, ticks>>

\* ToggleDeployment has returned to loopIteration, which logs an error and
\* goes on to the next key either way.  (A Deployment the indexer shows as
\* opted in has annotations, and no writer of the model removes annotations:
\* the loop's calls of ToggleDeployment do not panic.)
Continue ==
    /\ run = "call" /\ pc[LoopCaller] = "idle"
    /\ visit' = [visit EXCEPT ![Head(todo)].result = last.result]
    /\ todo' = Tail(todo)
    /\ run' = "tick"
    /\ UNCHANGED <<togglerVars, clock, sched, req>>
    /\ UNCHANGED <<mirror, synced, stop, walltime, ticks>>

\* TickEnd with Run returning after a tick in which a toggle failed
TickEndGivesUp ==
    /\ run = "tick" /\ todo = <<>>
    /\ run' = IF \E k \in Keys : visit[k].result = "error" THEN "done" ELSE "wait"
    /\ UNCHANGED <<togglerVars, clock, sched, req>>
    /\ UNCHANGED <<mirror, synced, stop, todo, walltime, ticks, visit>>

\* loopIteration returns; wait.Until sleeps for the period
TickEnd ==
    /\ run = "tick" /\ todo = <<>>
    /\ run' = "wait"
    /\ UNCHANGED <<togglerVars, clock, sched, req>>
    /\ UNCHANGED <<mirror, synced, stop, todo, walltime, ticks, visit>>

\* Somebody closes stopCh
StopSignal ==
    /\ ~stop
    /\ stop' = TRUE
    /\ UNCHANGED <<togglerVars, clock, sched, req>>
    /\ UNCHANGED <<mirror, synced, run, todo, walltime, ticks, visit>>

\* Time passes.  A call of loopIteration is short beside the minute the
\* schedule is resolved to: the clock moves between the calls.
ClockAdvance(w) ==
    /\ run = "wait"
    /\ walltime # w
    /\ walltime' = w
    /\ UNCHANGED <<togglerVars, clock, sched, req>>
    /\ UNCHANGED <<mirror, synced, stop, run, todo, ticks, visit>>

\* Values of the scheduler.off-schedule annotation: "22:00-06:00" (a window
\* across midnight), "22:00", "ab", "22:00-06:00-ab"
T2200 == <<"2", "2", ":", "0", "0">>
T0600 == <<"0", "6", ":", "0", "0">>
WrappingSchedule == JoinTokens(<<T2200, T0600>>)
MalformedSchedules ==
    {T2200, <<"a", "b">>, JoinTokens(<<T2200, T0600, <<"a", "b">>>>)}

\* Wall-clock readings: 22:00:00 (the start of the window), 23:30:59 (inside
\* it), 07:00:00 (outside it)
LoopTimes ==
    {[hour |-> 22, minute |-> 0, second |-> 0],
     [hour |-> 23, minute |-> 30, second |-> 59],
     [hour |-> 7, minute |-> 0, second |-> 0]}

\* An annotation map: the entries of `entries` (key, value) whose key is set
Annotated(entries) ==
    [x \in {e[1] : e \in entries} |-> (CHOOSE e \in entries : e[1] = x)[2]]

Stored(r, a) == [exists |-> TRUE, replicas |-> r, ann |-> a, rv |-> 0]

\* Deployments that opted in (scheduler.enabled is "true" or "True") with a
\* valid schedule, running or suspended, with or without a replicas-memory
ScheduledWorkloads ==
    {Stored(r, Annotated({<<ENABLED_ANNOTATION, en>>,
                          <<SCHEDULE_ANNOTATION, WrappingSchedule>>} \cup m)) :
        r \in {0, ReplicaStep},
        en \in {<<"t", "r", "u", "e">>, <<"T", "r", "u", "e">>},
        m \in {{}, {<<REPLICAS_MEMORY_ANNOTATION, Itoa(ReplicaStep)>>},
               {<<REPLICAS_MEMORY_ANNOTATION, <<"x">>>>}}}

\* Deployments that opted in with no schedule or a malformed one
MalformedWorkloads ==
    {Stored(ReplicaStep, Annotated({<<ENABLED_ANNOTATION, <<"t", "r", "u", "e">>>>} \cup s)) :
        s \in {{}} \cup {{<<SCHEDULE_ANNOTATION, v>>} : v \in MalformedSchedules}}

\* Deployments that did not opt in: no annotation at all, a schedule only,
\* scheduler.enabled = "false"
OtherWorkloads ==
    {Stored(ReplicaStep, EmptyMap),
     Stored(ReplicaStep, Annotated({<<SCHEDULE_ANNOTATION, WrappingSchedule>>})),
     Stored(ReplicaStep, Annotated({<<ENABLED_ANNOTATION, <<"f", "a", "l", "s", "e">>>>,
                                    <<SCHEDULE_ANNOTATION, WrappingSchedule>>}))}

\* Controller.Start: the cluster holds one or two Deployments, Run begins
InitLoop ==
    /\ clock = NoClock
    /\ sched = NoSched
    /\ req = NoReq
    /\ store \in [Keys -> ScheduledWorkloads \cup MalformedWorkloads
                          \cup OtherWorkloads \cup {Absent}]
    /\ store["A"].exists
    /\ store["B"] \in {Absent} \cup {s \in ScheduledWorkloads :
                                        s.ann[ENABLED_ANNOTATION] = <<"t", "r", "u", "e">>
                                        /\ ((REPLICAS_MEMORY_ANNOTATION \in DOMAIN s.ann) => s.replicas = 0)}
    /\ init = store
    /\ ext = 0
    /\ left = store
    /\ pc = [c \in Callers |-> "idle"]
    /\ cur = [c \in Callers |-> NoCall]
    /\ last = NoCall
    /\ prev = NoCall
    /\ held = [c \in Callers |-> NoHeld]
    /\ ncalls = 0
    /\ faults = 0
    /\ mirror = [k \in Keys |-> NoEntry]
    /\ synced = FALSE
    /\ stop = FALSE
    /\ run = "init"
    /\ todo = <<>>
    /\ walltime \in LoopTimes
    /\ ticks = 0
    /\ visit = [k \in Keys |-> NoVisit]

\* The control loop on its own: nobody else writes, nobody stops it
NextLoop ==
    \/ InformerSync
    \/ \E k \in Keys : InformerUpdate(k)
    \/ RunSynced
    \/ \E order \in KeyOrders : TickStart(order)
    \/ Visit
    \/ Continue
    \/ TickEnd
    \/ GetStep(LoopCaller)
    \/ UpdateStep(LoopCaller, FALSE)
    \/ \E w \in LoopTimes : ClockAdvance(w)

SpecLoop == InitLoop /\ [][NextLoop]_vars

\* Two opted-in Deployments with valid schedules
InitFaulty ==
    /\ InitLoop
    /\ \A k \in Keys : /\ store[k] \in ScheduledWorkloads
                       /\ store[k].ann[ENABLED_ANNOTATION] = <<"t", "r", "u", "e">>

\* The control loop beside the other writers of the cluster API, whose
\* calls may fail.  The other writers change or delete one of the two
\* Deployments, the indexer stays as the informer first filled it and the
\* clock stays within its minute.
NextFaulty ==
    \/ InformerSync
    \/ RunSynced
    \/ \E order \in KeyOrders : TickStart(order)
    \/ Visit
    \/ Continue
    \/ TickEnd
    \/ GetStep(LoopCaller)
    \/ \E fault \in BOOLEAN : UpdateStep(LoopCaller, fault)
    \/ ExternalWrite("A", store["A"].replicas)
    \/ ExternalDelete("A")

SpecFaulty == InitFaulty /\ [][NextFaulty]_vars

\* One running Deployment that opted in with a valid schedule, alone or
\* beside another
InitRun ==
    /\ InitLoop
    /\ \A k \in Keys :
          store[k].exists =>
              /\ store[k] \in ScheduledWorkloads
              /\ store[k].ann[ENABLED_ANNOTATION] = <<"t", "r", "u", "e">>
              /\ store[k].replicas # 0
              /\ REPLICAS_MEMORY_ANNOTATION \notin DOMAIN store[k].ann

\* Controller.Run from its start to its return: the informer syncs or not,
\* somebody closes stopCh or not
NextRun ==
    \/ InformerSync
    \/ RunSynced
    \/ RunNotSynced
    \/ \E order \in KeyOrders : TickStart(order)
    \/ RunStopped
    \/ Visit
    \/ Continue
    \/ TickEnd
    \/ GetStep(LoopCaller)
    \/ UpdateStep(LoopCaller, FALSE)
    \/ StopSignal

SpecRun == InitRun /\ [][NextRun]_vars

\* The next step of the goroutine of Run
RunStep ==
    \/ RunSynced
    \/ RunNotSynced
    \/ \E order \in KeyOrders : TickStart(order)
    \/ RunStopped
    \/ Visit
    \/ Continue
    \/ TickEnd
    \/ GetStep(LoopCaller)
    \/ UpdateStep(LoopCaller, FALSE)

\* The goroutine of Run keeps running: its API calls return and the timer of
\* wait.Until fires.  Nothing is assumed of the informer and of stopCh.
FairRun == SpecRun /\ WF_vars(RunStep)

\* One running Deployment that opted in, with a valid schedule and no
\* replicas-memory
InitConverge ==
    /\ InitRun
    /\ ~store["B"].exists

\* The control loop beside another client that updates the Deployment between
\* a Get and the Update of the loop's toggle call, which then meets a
\* conflict.  The other client writes MaxExternal times at most, fewer than
\* the RetrySteps * MaxTicks conflicts it would take to fail every tick the
\* model runs.
NextConverge ==
    \/ InformerSync
    \/ RunSynced
    \/ \E order \in KeyOrders : TickStart(order)
    \/ Visit
    \/ Continue
    \/ TickEnd
    \/ GetStep(LoopCaller)
    \/ UpdateStep(LoopCaller, FALSE)
    \/ ExternalWrite("A", store["A"].replicas)

SpecConverge == InitConverge /\ [][NextConverge]_vars

\* The goroutine of Run keeps running and the informer completes its
\* initial list
FairConverge == SpecConverge /\ WF_vars(RunStep) /\ WF_vars(InformerSync)

---------------------------------------------------------------------------
(* The HTTP service: the /scaleDown and /scaleUp handlers *)

StatusOK == 200
StatusBadRequest == 400
StatusInternalServerError == 500
StatusNotImplemented == 501

\* The status the client receives when the handler writes `code`: for a
\* method other than POST the handler has already called
\* WriteHeader(StatusNotImplemented) and has gone on, and net/http ignores
\* every later WriteHeader.
ResponseStatus(post, code) == IF post THEN code ELSE StatusNotImplemented

\* A request without a ToggleDeployment call, answered with `code`
Answered(post, code) ==
    [NoReq EXCEPT !.post = post, !.status = ResponseStatus(post, code)]

\* A request for Deployment k reaches the /scaleDown (t = DISABLED) or
\* /scaleUp (t = ENABLED) handler.  post: its method is POST; decoded: its
\* body is a JSON document the decoder accepts; loaded:
\* LoadK8SClientConfigFile returns a clientset.  The handler runs up to its
\* entry into ToggleDeployment.
Request(k, t, post, decoded, loaded) ==
    /\ Alive
    /\ ~req.open
    /\ pc[Handler] = "idle"
    /\ ncalls < MaxCalls
    /\ IF ~decoded
       THEN /\ req' = Answered(post, StatusBadRequest)
            /\ UNCHANGED <<store, init, ext, left, pc, cur, last, prev, held, faults>>
       ELSE IF ~loaded
       THEN /\ req' = Answered(post, StatusInternalServerError)
            /\ UNCHANGED <<store, init, ext, left, pc, cur, last, prev, held, faults>>
       ELSE /\ req' = [NoReq EXCEPT !.open = TRUE, !.post = post]
            /\ StartCall(Handler, k, t)
    /\ ncalls' = ncalls + 1
    /\ UNCHANGED besideVars

\* ToggleDeployment has returned to the handler, which writes the response
Respond ==
    /\ req.open
    /\ pc[Handler] = "idle"
    /\ req.result \in {"ok", "error"}
    /\ req' = [req EXCEPT
                 !.open = FALSE,
                 !.status = ResponseStatus(req.post,
                                IF req.result = "ok"
                                THEN StatusOK
                                ELSE StatusInternalServerError)]
    /\ UNCHANGED <<togglerVars, besideVars>>

\* ToggleDeployment has panicked in the handler: net/http recovers the panic
\* of the connection's goroutine and closes the connection with no response;
\* the next request is served by another goroutine.
Aborted ==
    /\ req.open
    /\ pc[Handler] = "crashed"
    /\ req' = [req EXCEPT !.open = FALSE]
    /\ pc' = [pc EXCEPT ![Handler] = "idle"]
    /\ UNCHANGED <<store, init, ext, left, cur, last, prev, held, ncalls, faults>>
    /\ UNCHANGED besideVars

\* The service on its own beside the other writers of the cluster API
NextManual ==
    \/ \E t \in BOOLEAN, post \in BOOLEAN, decoded \in BOOLEAN, loaded \in BOOLEAN :
          Request("A", t, post, decoded, loaded)
    \/ GetStep(Handler)
    \/ \E fault \in BOOLEAN : UpdateStep(Handler, fault)
    \/ Respond
    \/ Aborted
    \/ ExternalWrite("A", store["A"].replicas)
    \/ ExternalDelete("A")

SpecManual == Init /\ [][NextManual]_vars

---------------------------------------------------------------------------
(* The control loop and the HTTP service in one process *)

\* Requests served beside the loop
MaxRequests == 2

\* A running Deployment that opted in, with a valid schedule and no
\* replicas-memory, is all the cluster holds
InitBoth ==
    /\ clock = NoClock
    /\ sched = NoSched
    /\ req = NoReq
    /\ \E n \in ReplicaCounts \ {0} :
          store = [k \in Keys |->
                     IF k = "A"
                     THEN Stored(n, Annotated({<<ENABLED_ANNOTATION, <<"t", "r", "u", "e">>>>,
                                               <<SCHEDULE_ANNOTATION, WrappingSchedule>>}))
                     ELSE Absent]
    /\ init = store
    /\ ext = 0
    /\ left = store
    /\ pc = [c \in Callers |-> "idle"]
    /\ cur = [c \in Callers |-> NoCall]
    /\ last = NoCall
    /\ prev = NoCall
    /\ held = [c \in Callers |-> NoHeld]
    /\ ncalls = 0
    /\ faults = 0
    /\ mirror = [k \in Keys |-> NoEntry]
    /\ synced = FALSE
    /\ stop = FALSE
    /\ run = "init"
    /\ todo = <<>>
    /\ walltime \in LoopTimes
    /\ ticks = 0
    /\ visit = [k \in Keys |-> NoVisit]

\* The loop's goroutine and the goroutine of a request run side by side;
\* every request gets as far as its toggle call, the cluster API answers
\* every call and nobody else writes
NextBoth ==
    \/ InformerSync
    \/ \E k \in Keys : InformerUpdate(k)
    \/ RunSynced
    \/ \E order \in KeyOrders : TickStart(order)
    \/ Visit
    \/ Continue
    \/ TickEnd
    \/ \E w \in LoopTimes : ClockAdvance(w)
    \/ \E t \in BOOLEAN, post \in BOOLEAN :
          ncalls < MaxRequests /\ Request("A", t, post, TRUE, TRUE)
    \/ Respond
    \/ \E c \in Callers : GetStep(c)
    \/ \E c \in Callers : UpdateStep(c, FALSE)

SpecBoth == InitBoth /\ [][NextBoth]_vars

---------------------------------------------------------------------------
(* Properties of the state toggle protocol *)

HasMemory(o) == REPLICAS_MEMORY_ANNOTATION \in DOMAIN o.ann

\* The API failed no call of the recorded toggle call and the Deployment
\* existed whenever it was fetched
NoFailure(call) == call.failAt = 0 /\ call.notFoundAt = 0

\* The observed caller made the calls `prev` and then `last` on one
\* Deployment with no other writer from the start of the first to the end of
\* the second
InARow ==
    /\ prev.result # "none" /\ last.result # "none"
    /\ prev.key = last.key
    /\ prev.clean /\ prev.quiet /\ last.clean
    /\ NoFailure(prev) /\ NoFailure(last)

\* C1: ToggleDeployment(DISABLED) and then ToggleDeployment(ENABLED) on a
\* Deployment that had n > 0 replicas and no replicas-memory annotation, with
\* no other writer in between, end with n replicas and no replicas-memory
\* annotation stored.
C1_RoundTrip ==
    (/\ InARow
     /\ prev.target = DISABLED_STATE /\ last.target = ENABLED_STATE
     /\ prev.before.replicas > 0 /\ ~HasMemory(prev.before))
    => /\ last.after.replicas = prev.before.replicas
       /\ ~HasMemory(last.after)

C1_Witness ==
    /\ InARow
    /\ prev.target = DISABLED_STATE /\ last.target = ENABLED_STATE
    /\ prev.before.replicas = MaxReplicas * ReplicaStep /\ ~HasMemory(prev.before)
    /\ prev.result = "ok" /\ prev.after.replicas = 0 /\ HasMemory(prev.after)
    /\ last.result = "ok" /\ last.writes = 1

\* C2: ToggleDeployment(DISABLED) on a Deployment with non-zero replicas
\* leaves 0 replicas stored, a second ToggleDeployment(DISABLED) in a row
\* leaves 0 again and issues no update (only the first does);
\* ToggleDeployment(ENABLED) on a Deployment with non-zero replicas returns
\* success, issues no update and leaves the stored Deployment as it was.
C2_Idempotence ==
    /\ (/\ last.result # "none" /\ last.clean /\ NoFailure(last)
        /\ last.target = DISABLED_STATE /\ last.before.replicas # 0)
       => last.after.replicas = 0 /\ last.updates = 1
    /\ (/\ InARow
        /\ prev.target = DISABLED_STATE /\ last.target = DISABLED_STATE
        /\ prev.before.replicas # 0)
       => /\ prev.after.replicas = 0 /\ last.after.replicas = 0
          /\ prev.updates = 1 /\ last.updates = 0
    /\ (/\ last.result # "none" /\ last.clean /\ NoFailure(last)
        /\ last.target = ENABLED_STATE /\ last.before.replicas # 0)
       => /\ last.result = "ok" /\ last.updates = 0
          /\ last.after = last.before

\* C3: from a running Deployment (replicas n > 0, no replicas-memory
\* annotation), whatever toggle calls are made, a stored Deployment with 0
\* replicas has replicas-memory holding n, and one with replicas > 0 has no
\* replicas-memory annotation.
C3_WorkloadInvariant ==
    \A k \in Keys :
        (init[k].exists /\ init[k].replicas > 0 /\ ~HasMemory(init[k]))
        => /\ store[k].replicas = 0
                => /\ HasMemory(store[k])
                   /\ store[k].ann[REPLICAS_MEMORY_ANNOTATION] = Itoa(init[k].replicas)
           /\ store[k].replicas > 0 => ~HasMemory(store[k])

C3_Witness ==
    /\ init["A"].replicas = ReplicaStep /\ ~HasMemory(init["A"])
    /\ store["A"].replicas = 0
    /\ store["A"].ann[REPLICAS_MEMORY_ANNOTATION] = Itoa(ReplicaStep)
    /\ store["A"].rv = 3

\* The mutation the protocol computes from a fetched Deployment, where it
\* goes on to an update
Mutation(f, target) ==
    IF target = DISABLED_STATE
    THEN [replicas |-> 0,
          ann |-> MapSet(f.ann, REPLICAS_MEMORY_ANNOTATION, Itoa(f.replicas))]
    ELSE IF HasMemory(f)
         THEN [replicas |-> Atoi(f.ann[REPLICAS_MEMORY_ANNOTATION]).val,
               ann |-> MapDelete(f.ann, REPLICAS_MEMORY_ANNOTATION)]
         ELSE [replicas |-> f.replicas, ann |-> f.ann]

\* Every invocation of the closure issued an Update call, the first N ended
\* in a conflict and the last was accepted
AcceptedAfterConflicts(call) ==
    /\ call.result # "none"
    /\ call.updates = call.attempts
    /\ call.conflicts = call.attempts - 1
    /\ call.err = "nil"

\* C4: when the Update call of ToggleDeployment reports a conflict N times
\* and is accepted on invocation N+1, ToggleDeployment returns success and
\* the stored Deployment is the mutation of the Deployment fetched in
\* invocation N+1, which was the stored one; and ToggleDeployment gives up on
\* conflicts only at the retry bound (every N below it is retried).
C4_ConflictRetry ==
    /\ AcceptedAfterConflicts(last)
       => /\ last.result = "ok"
          /\ last.conflicts < RetrySteps
          /\ ~last.stale
          /\ last.after.exists
          /\ last.after.replicas = Mutation(last.fetched, last.target).replicas
          /\ last.after.ann = Mutation(last.fetched, last.target).ann
    /\ (last.result = "error" /\ last.err = "conflict")
       => last.conflicts = RetrySteps

C4_Witness ==
    /\ AcceptedAfterConflicts(last)
    /\ last.conflicts = RetrySteps - 1
    /\ last.writes = 1
    /\ last.fetched.replicas # last.before.replicas

\* C5 (safety part): a call makes at most RetrySteps invocations of the
\* closure, and when every one ended in a conflict it returns an error, has
\* written nothing, and the stored Deployment is what the other writers left.
C5_Bounded ==
    /\ cur[Observed].attempts <= RetrySteps
    /\ last.attempts <= RetrySteps
    /\ (last.result # "none" /\ last.attempts > 0 /\ last.conflicts = last.attempts)
       => /\ last.result = "error"
          /\ last.attempts = RetrySteps
          /\ last.writes = 0
          /\ last.after = left[last.key]

\* C5: ToggleDeployment always terminates, within the bound of C5_Bounded.
C5_BoundedRetry ==
    /\ []C5_Bounded
    /\ (InCall(Observed) ~> ~InCall(Observed))

C5_Witness ==
    /\ last.result = "error"
    /\ last.conflicts = RetrySteps
    /\ last.after.replicas # last.before.replicas

C8_ResumeWithoutMemory ==
    (/\ last.result # "none" /\ last.clean /\ NoFailure(last)
     /\ last.target = ENABLED_STATE
     /\ last.before.exists /\ last.before.replicas = 0 /\ ~HasMemory(last.before))
    => /\ last.result = "ok"
       /\ last.after.replicas = 0
       /\ last.after.ann = last.before.ann

C8_Witness ==
    /\ last.result = "ok" /\ last.clean /\ NoFailure(last)
    /\ last.target = ENABLED_STATE
    /\ last.before.replicas = 0 /\ ~HasMemory(last.before)
    /\ last.updates = 1

\* The last call by the observed caller was to suspend a running Deployment
\* that had no annotations, with no other writer and no failure of the API
SuspendedBare ==
    /\ last.result # "none"
    /\ last.target = DISABLED_STATE
    /\ last.before.exists
    /\ last.before.replicas # 0
    /\ last.before.ann = EmptyMap
    /\ last.clean
    /\ NoFailure(last)

\* C20: toggle is total over annotation sets: for every fetched workload,
\* one with an empty or absent annotation map included, ToggleDeployment and
\* AttemptToggleDeployment return success or an error and never abort; and
\* suspending a workload with non-zero replicas and no annotations memorizes
\* its replica count and sets its replicas to 0.
C20_TotalOverAnnotations ==
    /\ \A c \in Callers : pc[c] # "crashed"
    /\ last.result # "panic"
    /\ SuspendedBare =>
          /\ last.result = "ok"
          /\ last.after.replicas = 0
          /\ HasMemory(last.after)
          /\ last.after.ann[REPLICAS_MEMORY_ANNOTATION] = Itoa(last.before.replicas)

---------------------------------------------------------------------------
(* Properties of the time-range evaluator and the schedule parser *)

\* Minute of the day of a clock time
MinuteOfDay(t) == 60 * t.hour + t.minute

\* C9: InRangeNow is true iff (end before start and (now > start or
\* now < end)) or (end not before start and now > start and now < end), at
\* minute-of-day resolution; so now = start or now = end is never in range
\* and a range with start = end is in range for no now.
C9_InRangeLaw ==
    clock.done =>
        LET s == MinuteOfDay(clock.start)
            e == MinuteOfDay(clock.end)
            n == MinuteOfDay(clock.wall)
        IN  /\ clock.result <=> \/ e < s /\ (n > s \/ n < e)
                                \/ ~(e < s) /\ n > s /\ n < e
            /\ (n = s \/ n = e) => ~clock.result
            /\ s = e => ~clock.result

C9_Witness ==
    /\ clock.done /\ clock.result
    /\ MinuteOfDay(clock.end) < MinuteOfDay(clock.start)
    /\ MinuteOfDay(clock.wall) < MinuteOfDay(clock.end)
    /\ clock.wall.second # 0

\* A token that is a valid HH:MM time once trimmed
ValidToken(tok) == ~ParseClock(Trim(tok, " ")).err

\* C10: parseScheduleAnnotation returns a TimeRange exactly for a value that
\* splits on "-" into two tokens that are both valid HH:MM times, and an
\* error for every other value: one token, three or more, an invalid token.
C10_TokenCount ==
    (sched.done /\ SCHEDULE_ANNOTATION \in DOMAIN sched.ann) =>
        LET tokens == Split(sched.ann[SCHEDULE_ANNOTATION], "-")
        IN  IF Len(tokens) = 2 /\ ValidToken(tokens[1]) /\ ValidToken(tokens[2])
            THEN sched.result.kind = "range"
            ELSE sched.result.kind = "error"

---------------------------------------------------------------------------
(* Properties of the control loop *)

\* A scheduler.off-schedule annotation that is present and splits into
\* exactly two valid HH:MM tokens
WellFormed(annotations) ==
    /\ SCHEDULE_ANNOTATION \in DOMAIN annotations
    /\ LET tokens == Split(annotations[SCHEDULE_ANNOTATION], "-")
       IN  Len(tokens) = 2 /\ ValidToken(tokens[1]) /\ ValidToken(tokens[2])

\* The window of a well-formed schedule annotation
Window(annotations) ==
    LET tokens == Split(annotations[SCHEDULE_ANNOTATION], "-")
    IN  [Start |-> ParseClock(Trim(tokens[1], " ")).time,
         End   |-> ParseClock(Trim(tokens[2], " ")).time]

\* Wall time w is strictly inside the window of the schedule annotation, at
\* the resolution of a minute
Inside(annotations, w) ==
    LET s == MinuteOfDay(Window(annotations).Start)
        e == MinuteOfDay(Window(annotations).End)
        n == MinuteOfDay(w)
    IN  IF e < s THEN n > s \/ n < e ELSE n > s /\ n < e

\* What a tick has to do with a Deployment of that schedule at wall time w
Dictated(annotations, w) ==
    IF Inside(annotations, w) THEN "suspend" ELSE "resume"

\* loopIteration has begun and has returned
TickOver == ticks > 0 /\ run = "wait"

\* C11: in a tick over an indexer that holds two opted-in Deployments, one
\* with a malformed schedule annotation (missing, not two tokens, or an
\* unparsable time) and one with a valid schedule, the tick completes and
\* has called the toggle of the valid one with the target its schedule
\* dictates, whatever the order of the keys.
C11_Isolation ==
    \A a, b \in Keys :
        (/\ a # b /\ ticks > 0
         /\ mirror[a].exists /\ IsEnabled(mirror[a].ann) /\ ~WellFormed(mirror[a].ann)
         /\ mirror[b].exists /\ IsEnabled(mirror[b].ann) /\ WellFormed(mirror[b].ann))
        => /\ run # "crashed"
           /\ TickOver => visit[b].kind = Dictated(mirror[b].ann, visit[b].at)

\* C12: when the toggle of one Deployment fails during a tick (its Get
\* fails, its conflicts exhaust the retries, its Update fails otherwise, or
\* its replicas-memory is unparsable), the loop goes on: the tick still
\* evaluates the other opted-in Deployment with a valid schedule and calls
\* its toggle with the dictated target before it ends, and the loop is left
\* able to tick again.
C12_Containment ==
    \A f, b \in Keys :
        (/\ f # b /\ visit[f].result = "error"
         /\ mirror[b].exists /\ IsEnabled(mirror[b].ann) /\ WellFormed(mirror[b].ann))
        => /\ run \in {"tick", "call", "wait"}
           /\ pc[LoopCaller] # "crashed"
           /\ TickOver => /\ visit[b].kind = Dictated(mirror[b].ann, visit[b].at)
                          /\ visit[b].result \in {"ok", "error"}

C12_Witness ==
    /\ ticks = MaxTicks /\ run = "call" /\ Len(todo) = 2
    /\ prev.result = "error" /\ prev.err = "conflict" /\ prev.key = "A"
    /\ last.result = "ok" /\ last.key = "B" /\ last.writes = 1

\* The record of the loop's toggle call on key k in the tick that is over
\* (the tick called the toggle of k)
CallOf(k) == IF last.key = k THEN last ELSE prev

\* The tick that is over called the toggle of key k, an opted-in Deployment
\* whose schedule is the window across midnight, and it returned
Cycled(k) ==
    /\ TickOver
    /\ mirror[k].exists /\ IsEnabled(mirror[k].ann)
    /\ WellFormed(mirror[k].ann)
    /\ mirror[k].ann[SCHEDULE_ANNOTATION] = WrappingSchedule
    /\ visit[k].kind \in {"suspend", "resume"}
    /\ CallOf(k).key = k /\ CallOf(k).result # "none"

\* C13: for an opted-in Deployment with a schedule across midnight and no
\* other writer, a tick at a time strictly inside the window that finds n > 0
\* replicas leaves 0 replicas and replicas-memory = n stored, and a tick at a
\* time outside the window that finds 0 replicas and replicas-memory = n
\* leaves n replicas and no replicas-memory stored.
C13_ScheduleCycle ==
    \A k \in Keys :
        Cycled(k) =>
            LET before == CallOf(k).before
                inside == Inside(mirror[k].ann, visit[k].at)
            IN  /\ (inside /\ before.replicas > 0)
                   => /\ store[k].replicas = 0
                      /\ HasMemory(store[k])
                      /\ store[k].ann[REPLICAS_MEMORY_ANNOTATION] = Itoa(before.replicas)
                /\ (/\ ~inside /\ before.replicas = 0 /\ HasMemory(before)
                    /\ \E n \in ReplicaCounts \ {0} :
                          before.ann[REPLICAS_MEMORY_ANNOTATION] = Itoa(n))
                   => /\ Itoa(store[k].replicas) = before.ann[REPLICAS_MEMORY_ANNOTATION]
                      /\ ~HasMemory(store[k])

\* A tick at 23:30 and then a tick at 07:00 on a Deployment that ran 6
\* replicas
C13_Witness ==
    /\ Cycled("A") /\ ticks = 2
    /\ init["A"].replicas = ReplicaStep /\ ~HasMemory(init["A"])
    /\ prev.key = "A" /\ prev.target = DISABLED_STATE /\ prev.before = init["A"]
    /\ prev.after.replicas = 0
    /\ last.key = "A" /\ last.target = ENABLED_STATE /\ last.before = prev.after
    /\ visit["A"].at.hour = 7
    /\ store["A"].replicas = ReplicaStep /\ ~HasMemory(store["A"])

\* The scheduler.enabled annotation is there and reads "true" in some mix of
\* upper and lower case
OptedIn(annotations) ==
    /\ ENABLED_ANNOTATION \in DOMAIN annotations
    /\ LET v == annotations[ENABLED_ANNOTATION]
       IN  /\ Len(v) = 4
           /\ v[1] \in {"t", "T"} /\ v[2] \in {"r", "R"}
           /\ v[3] \in {"u", "U"} /\ v[4] \in {"e", "E"}

\* The loop has a toggle call on key k under way or on record
LoopCalled(k) ==
    \/ InCall(LoopCaller) /\ cur[LoopCaller].key = k
    \/ last.result # "none" /\ last.key = k
    \/ prev.result # "none" /\ prev.key = k

\* C14: for a Deployment whose scheduler.enabled annotation in the indexer
\* is absent or is not "true" in any mix of case, the loop calls no toggle
\* (no Get, no Update) and the stored Deployment stays as it was.
C14_OptInFilter ==
    \A k \in Keys :
        ~OptedIn(mirror[k].ann)
        => /\ ~LoopCalled(k)
           /\ visit[k].kind \in {"none", "absent", "off"}
           /\ store[k] = init[k]

C14_Witness ==
    /\ TickOver /\ ticks = MaxTicks
    /\ mirror["A"].exists /\ ENABLED_ANNOTATION \in DOMAIN mirror["A"].ann
    /\ ~OptedIn(mirror["A"].ann) /\ WellFormed(mirror["A"].ann)
    /\ visit["A"].kind = "off"
    /\ visit["B"].kind = "suspend" /\ visit["B"].result = "ok"
    /\ store["B"] # init["B"]

\* C15: no tick runs before HasSynced() is true, and the wait for it is
\* bounded: if the informer never syncs, the wait ends and Run returns (an
\* execution in which the informer never syncs reaches the end of Run).
C15_StartupGating ==
    /\ [](run \in {"tick", "call"} \/ ticks > 0 => synced)
    /\ <>(synced \/ run = "done")

\* C16: once stopCh is closed no tick begins (the tick under way goes on to
\* its end), and Run returns in the end.
C16_StopSignal ==
    /\ [][stop => ticks' = ticks]_vars
    /\ [](stop /\ run = "done" => pc[LoopCaller] = "idle" /\ todo = <<>>)
    /\ (stop ~> run = "done")

C16_Witness ==
    /\ stop /\ run = "done"
    /\ ticks = 1 /\ ticks < MaxTicks
    /\ visit["A"].result = "ok" /\ visit["B"].result = "ok"

\* The loop's last two calls of ToggleDeployment were made for the same
\* Deployment with the same target, in one tick and a later one, and the
\* earlier of them was applied
Repeated ==
    /\ prev.result = "ok"
    /\ last.result \in {"ok", "error"}
    /\ prev.key = last.key
    /\ prev.target = last.target

\* C19: with a fixed schedule verdict and no other writer, once a tick has
\* been applied to an enabled workload, every later tick issues no Update
\* call for that workload, whatever the starting state, a workload outside
\* its window with 0 replicas and no replicas-memory included.
C19_Quiescence == Repeated => last.updates = 0

---------------------------------------------------------------------------
(* Properties of the HTTP service *)

\* A request has been answered, or dropped by a panic
Served == ~req.open /\ (req.status # 0 \/ req.result # "none")

\* C17: each scaleDown / scaleUp request maps onto a single non-retrying
\* toggle call: it causes at most one Update call against the cluster API,
\* and its response is a success iff that toggle call returned success.
C17_ManualSingleAttempt ==
    Served =>
        /\ req.updates <= 1
        /\ (req.status = StatusOK) <=> (req.result = "ok")

---------------------------------------------------------------------------
(* Properties of the loop and the service together *)

\* The original scale n of the Deployment is in its replicas, or in its
\* replicas-memory annotation while its replicas are 0
ScaleKept(k) ==
    LET s == store[k]
        n == init[k].replicas
    IN  /\ s.exists
        /\ \/ s.replicas = n
           \/ /\ s.replicas = 0
              /\ HasMemory(s)
              /\ Atoi(s.ann[REPLICAS_MEMORY_ANNOTATION]) = [err |-> FALSE, val |-> n]

\* The step changes the stored object of k by an Update call of a toggler
\* that had fetched the object as it is stored now
FromLatest(k) ==
    \E c \in Callers :
        /\ pc[c] = "update"
        /\ cur[c].key = k
        /\ cur[c].fetched = Fetch(store[k])
        /\ store'[k] = Applied(store[k], cur[c].obj)

\* C18: a workload starting at n > 0 replicas with no replicas-memory, under
\* every interleaving of manual toggles and toggles of the control loop on
\* it: every successful update was computed from the latest stored version,
\* and in every reachable state its replicas are n, or they are 0 and the
\* replicas-memory is n.
C18_ScalePreserved ==
    /\ [](\A k \in Keys : init[k].exists => ScaleKept(k))
    /\ [][\A k \in Keys : store'[k] # store[k] => FromLatest(k)]_vars

\* The loop's toggle met a conflict with the update of a request, fetched
\* again and found the Deployment suspended by that request
C18_Witness ==
    /\ last.key = "A" /\ last.result = "ok" /\ last.conflicts > 0
    /\ last.target = DISABLED_STATE
    /\ req.result = "ok" /\ req.updates > 0
    /\ ncalls > 1
    /\ store["A"].replicas = 0
    /\ ScaleKept("A")

---------------------------------------------------------------------------
(* Properties of the control loop under fair scheduling *)

\* The tick's toggle of Deployment k has failed
ToggleFailed(k) == visit[k].kind \in {"suspend", "resume"} /\ visit[k].result = "error"

\* A tick has entered ToggleDeployment for Deployment k
Attempting(k) ==
    /\ visit[k].kind \in {"suspend", "resume"}
    /\ visit[k].result = "none"
    /\ pc[LoopCaller] = "get"
    /\ cur[LoopCaller].key = k

\* The Deployment is as it was but for its resource version
PriorState(k) ==
    /\ store[k].exists
    /\ store[k].replicas = init[k].replicas
    /\ store[k].ann = init[k].ann

\* C21: for an enabled workload with a valid schedule that stays in the
\* mirror, if the current time remains inside the suspend window and other
\* writers cause finitely many conflicts, then under fair scheduling of the
\* ticks its replicas eventually become 0; a tick whose toggle failed leaves
\* the workload in its prior state and the next tick attempts the toggle
\* again.
C21_Convergence ==
    /\ (Inside(store["A"].ann, walltime) ~> (store["A"].replicas = 0))
    /\ [](ToggleFailed("A") => PriorState("A"))
    /\ (ToggleFailed("A") ~> Attempting("A"))

\* A tick's toggle ran out of retries on conflicts, and the next tick
\* suspended the Deployment
C21_Witness ==
    /\ ticks = 2
    /\ prev.key = "A" /\ prev.result = "error" /\ prev.conflicts = RetrySteps
    /\ last.key = "A" /\ last.result = "ok" /\ last.writes = 1
    /\ store["A"].replicas = 0
    /\ HasMemory(store["A"])
    /\ store["A"].ann[REPLICAS_MEMORY_ANNOTATION] = Itoa(init["A"].replicas)

====
